---- MODULE Spec2Model ----
(***************************************************************************)
(* State-machine model of the SolGuard web front end: the dispatch screen  *)
(* (src/script.js and its older variant src/unnamed/part_000) and the      *)
(* result screen (src/results.js).                                         *)
(*                                                                         *)
(* Text is modelled as a sequence of segments.  The token address is a     *)
(* sequence of one-character segments, so that length, trimming and the    *)
(* Base58 test work on characters; messages are sequences of phrases, so   *)
(* that ===, includes() and template concatenation work on them.           *)
(***************************************************************************)
EXTENDS Integers, Sequences, FiniteSets, Bags, TLC

VARIABLES
    env,            \* which build runs, host embedding present, page hostname
    page,           \* "index" | "results": the document shown in the tab
    location,       \* the tab's URL (a segment sequence)
    pendingNav,     \* navigation that has been triggered and not yet committed
    inputValue,     \* #tokenAddress.value on the dispatch screen
    inputInvalid,   \* #tokenAddress carries the class "invalid"
    button,         \* #scanButton: disabled, loading class, label
    errorDiv,       \* #error: display, title, details
    scans,          \* the bag of suspended scanToken() runs
    sessionStorage, \* the tokenData item of the tab's sessionStorage
    view,           \* the result screen's document
    step            \* the handler that ran last: what it was given, what it did

vars == <<env, page, location, pendingNav, inputValue, inputInvalid, button,
          errorDiv, scans, sessionStorage, view, step>>

-----------------------------------------------------------------------------
(* Bounds *)

\* Number of scanToken() runs that may be suspended at an await at one time.
MaxScans == 2

-----------------------------------------------------------------------------
(* Text helpers *)

Rep(c, n) == [i \in 1..n |-> c]

SetMin(S) == CHOOSE m \in S : \A k \in S : m <= k

SetMax(S) == CHOOSE m \in S : \A k \in S : m >= k

\* String.prototype.includes: sub occurs in s as a contiguous run.
Includes(s, sub) ==
    \E i \in 0..(Len(s) - Len(sub)) : SubSeq(s, i + 1, i + Len(sub)) = sub

Whitespace == {" ", "\t"}

TrimNothing(s) == s

\* String.prototype.trim
Trim(s) ==
    LET solid == {i \in 1..Len(s) : s[i] \notin Whitespace}
    IN  IF solid = {} THEN <<>> ELSE SubSeq(s, SetMin(solid), SetMax(solid))

RECURSIVE Flatten(_)
Flatten(ss) == IF ss = <<>> THEN <<>> ELSE Head(ss) \o Flatten(Tail(ss))

-----------------------------------------------------------------------------
(* Address validator *)

MinAddressLen == 32

MaxAddressLen == 44

\* The character class [1-9A-HJ-NP-Za-km-z]
Base58 ==
    {"1", "2", "3", "4", "5", "6", "7", "8", "9"}
    \cup {"A", "B", "C", "D", "E", "F", "G", "H"}
    \cup {"J", "K", "L", "M", "N"}
    \cup {"P", "Q", "R", "S", "T", "U", "V", "W", "X", "Y", "Z"}
    \cup {"a", "b", "c", "d", "e", "f", "g", "h", "i", "j", "k"}
    \cup {"m", "n", "o", "p", "q", "r", "s", "t", "u", "v", "w", "x", "y", "z"}

\* The pattern without its anchors: some 32 characters in a row are Base58
MatchesBase58PatternUnanchored(address) ==
    \E k \in 1..Len(address) :
        /\ k + MinAddressLen - 1 <= Len(address)
        /\ \A i \in k..(k + MinAddressLen - 1) : address[i] \in Base58

\* address.match(/^[1-9A-HJ-NP-Za-km-z]{32,44}$/), as a truth value
MatchesBase58Pattern(address) ==
    /\ Len(address) >= MinAddressLen
    /\ Len(address) <= MaxAddressLen
    /\ \A i \in 1..Len(address) : address[i] \in Base58

IsValidSolanaAddressNoAlphabet(address) ==
    IF address = <<>> THEN FALSE
    ELSE IF Len(address) < MinAddressLen \/ Len(address) > MaxAddressLen THEN FALSE
    ELSE TRUE

IsValidSolanaAddress(address) ==
    IF address = <<>> THEN FALSE
    ELSE IF Len(address) < MinAddressLen \/ Len(address) > MaxAddressLen THEN FALSE
    ELSE MatchesBase58Pattern(address)

-----------------------------------------------------------------------------
(* What the user may type into the address field *)

AddrA == Rep("A", 32)

AddrB == Rep("b", 44)

\* 32 characters, one of them the excluded "0"
AddrZero == [i \in 1..32 |-> IF i = 7 THEN "0" ELSE "A"]

Inputs ==
    { <<>>,                         \* nothing typed
      <<" ", "\t">>,                \* white space only
      <<" ">> \o AddrA \o <<" ">>,  \* valid once trimmed
      AddrZero }                    \* right length, wrong alphabet

-----------------------------------------------------------------------------
(* Configuration *)

Variants == {"script", "part000"}

Hostnames == {"localhost", "solguard.example"}

\* The deployments: inside the host embedding the page is served from a public
\* host; outside it, script.js runs on the developer's localhost.  part_000 does
\* not read the hostname.
Envs ==
    {e \in [variant : Variants, webapp : BOOLEAN, hostname : Hostnames, protocol : {"https:"}] :
        e.hostname = "localhost" <=> (e.variant = "script" /\ ~e.webapp)}

API_TIMEOUT == 30000

HEALTH_TIMEOUT == 5000

\* API_BASE_URL
ApiBaseUrl(e) ==
    IF e.variant = "part000" THEN <<"http://localhost:8000">>
    ELSE IF e.hostname = "localhost" THEN <<"http://localhost:8000">>
    ELSE <<e.protocol, "//", e.hostname, ":8000">>

HealthUrl(e) == ApiBaseUrl(e) \o <<"/health">>

AnalyzeUrl(e, tokenAddress) == ApiBaseUrl(e) \o <<"/api/analyze/">> \o tokenAddress

\* const timeout = options.timeout || API_TIMEOUT   (0 stands for "not given")
TimeoutOf(optionsTimeout) == IF optionsTimeout # 0 THEN optionsTimeout ELSE API_TIMEOUT

-----------------------------------------------------------------------------
(* JSON values *)

Undefined == [t |-> "undefined"]

JNull == [t |-> "null"]

JNum(n) == [t |-> "num", v |-> n]

JStr(s) == [t |-> "str", v |-> s]

JBool(b) == [t |-> "bool", v |-> b]

JArr(a) == [t |-> "arr", v |-> a]

JObj(r) == [t |-> "obj", v |-> r]

\* ToBoolean
Truthy(x) ==
    CASE x.t \in {"undefined", "null"} -> FALSE
      [] x.t = "num" -> x.v # 0
      [] x.t = "str" -> x.v # <<>>
      [] x.t = "bool" -> x.v
      [] OTHER -> TRUE

\* typeof x === 'object'
TypeofIsObject(x) == x.t \in {"null", "arr", "obj"}

\* x.k throws a TypeError when x is null or undefined
PropThrows(x) == x.t \in {"undefined", "null"}

\* x.k otherwise
Prop(x, k) == IF x.t = "obj" /\ k \in DOMAIN x.v THEN x.v[k] ELSE Undefined

RECURSIVE ToStr(_)
\* String(x), as a template literal applies it
ToStr(x) ==
    CASE x.t = "undefined" -> <<"undefined">>
      [] x.t = "null" -> <<"null">>
      [] x.t = "num" -> <<ToString(x.v)>>
      [] x.t = "str" -> x.v
      [] x.t = "bool" -> IF x.v THEN <<"true">> ELSE <<"false">>
      [] x.t = "arr" ->
            IF x.v = <<>> THEN <<>>
            ELSE IF Len(x.v) = 1 THEN ToStr(x.v[1])
            ELSE ToStr(x.v[1]) \o <<",">> \o ToStr(JArr(Tail(x.v)))
      [] OTHER -> <<"[object Object]">>

\* JSON.stringify(data): the text of a value
JsonStringify(x) == [json |-> x]

\* JSON.parse(text)
JsonParse(text) == text.json

-----------------------------------------------------------------------------
(* Errors *)

Err(name, message) == [name |-> name, message |-> message]

NoError == Err("none", <<>>)

\* new Error(message)
NewError(message) == Err("Error", message)

\* What a browser rejects fetch() or a body read with on a transport failure
\* (Chromium, Firefox, WebKit).
TransportErrors ==
    { Err("TypeError", <<"Failed to fetch">>),
      Err("TypeError", <<"NetworkError", " when attempting to fetch resource.">>),
      Err("TypeError", <<"Load failed">>) }

\* What fetch() rejects with once controller.abort() has run
AbortError == Err("AbortError", <<"The user aborted a request.">>)

\* What response.json() rejects with on a body that is not JSON
JsonSyntaxError == Err("SyntaxError", <<"Unexpected token < in JSON at position 0">>)

\* errorData.detail of null
NullDetailError == Err("TypeError", <<"Cannot read properties of null (reading 'detail')">>)

UnavailableMessage ==
    <<"Analysis service is ", "currently unavailable", ". Please try again later.">>

FailedToAnalyze == <<"Failed to analyze token">>

UnexpectedResponse == <<"Server returned an unexpected response">>

InvalidResponseMessage(e) ==
    IF e.variant = "script"
    THEN <<"Invalid response from server", ": Unexpected content type">>
    ELSE <<"Invalid response from server">>

InvalidDataMessage == <<"Invalid data received from server">>

-----------------------------------------------------------------------------
(* The messages of the dispatch screen *)

Shown(title, details) == [title |-> title, details |-> details]

EmptyInputShown == Shown(<<"Please enter a token address">>, <<>>)

InvalidAddressShown ==
    Shown(<<"Invalid Solana token address">>,
          <<"Please enter a valid Solana token address (32-44 characters)">>)

RequestTimeoutShown ==
    Shown(<<"Request timeout">>, <<"The analysis is taking too long. Please try again.">>)

ConnectionErrorShown(e) ==
    IF e.variant = "script"
    THEN Shown(<<"Connection error">>,
               <<"Cannot connect to the analysis service at ">> \o ApiBaseUrl(e)
                 \o <<". Please check your connection and try again.">>)
    ELSE Shown(<<"Connection error">>,
               <<"Cannot connect to the analysis service. Please check your connection and try again.">>)

ServiceUnavailableShown ==
    Shown(<<"Service unavailable">>,
          <<"The analysis service is currently down for maintenance. Please try again in a few minutes.">>)

AnalysisFailedShown(e, message) ==
    IF e.variant = "script"
    THEN Shown(<<"Analysis failed">>,
               <<"Error: ">> \o message
                 \o <<"\nPlease try again or contact support if the issue persists.">>)
    ELSE Shown(<<"Analysis failed">>, message)

\* The catch block of scanToken, with the test for AbortError left out
CatchShownNoAbortBranch(e, error) ==
    IF e.variant = "script"
    THEN IF \/ error.message = <<"Failed to fetch">>
            \/ Includes(error.message, <<"NetworkError">>)
         THEN ConnectionErrorShown(e)
         ELSE IF Includes(error.message, <<"currently unavailable">>)
         THEN ServiceUnavailableShown
         ELSE AnalysisFailedShown(e, error.message)
    ELSE IF error.message = <<"Failed to fetch">> THEN ConnectionErrorShown(e)
         ELSE AnalysisFailedShown(e, error.message)

\* The catch block of scanToken: the message it hands to showError
CatchShown(e, error) ==
    IF error.name = "AbortError" THEN RequestTimeoutShown
    ELSE IF e.variant = "script"
    THEN IF \/ error.message = <<"Failed to fetch">>
            \/ Includes(error.message, <<"NetworkError">>)
         THEN ConnectionErrorShown(e)
         ELSE IF Includes(error.message, <<"currently unavailable">>)
         THEN ServiceUnavailableShown
         ELSE AnalysisFailedShown(e, error.message)
    ELSE IF error.message = <<"Failed to fetch">> THEN ConnectionErrorShown(e)
         ELSE AnalysisFailedShown(e, error.message)

-----------------------------------------------------------------------------
(* DOM helpers of the dispatch screen *)

\* showLoading, the button part
ShowLoading == [disabled |-> TRUE, loading |-> TRUE, label |-> "Scanning..."]

\* hideLoading
HideLoading == [disabled |-> FALSE, loading |-> FALSE, label |-> "Scan Token"]

\* What #error shows while its display is 'none': nothing.  (Its innerHTML is
\* kept by the browser, is never read by the code, and is overwritten by
\* showError before the element is displayed again.)
HiddenError == [display |-> "none", title |-> <<>>, details |-> <<>>]

\* hideError
HideError(div) == HiddenError

\* showError, the #error part (it ends with hideLoading)
ShowError(shown) == [display |-> "block", title |-> shown.title, details |-> shown.details]

-----------------------------------------------------------------------------
(* What the network may deliver *)

NullHeader == [null |-> TRUE, v |-> <<>>]

Header(v) == [null |-> FALSE, v |-> v]

ContentTypes ==
    { NullHeader,
      Header(<<"application/json", "; charset=utf-8">>),
      Header(<<"text/html">>) }

Statuses == {200, 429}

\* response.ok
Ok(status) == status >= 200 /\ status <= 299

\* contentType && contentType.includes('application/json')
IsJsonContentType(ct) ==
    /\ ~ct.null
    /\ ct.v # <<>>
    /\ Includes(ct.v, <<"application/json">>)

Ev(kind, status, ct, body) ==
    [kind |-> kind, status |-> status, ct |-> ct, body |-> body]

NoEv == Ev("none", 0, NullHeader, Undefined)

\* fetch() settles: response headers, a transport failure, or the abort timer
HeaderEvents ==
    {Ev("response", st, ct, Undefined) : st \in Statuses, ct \in ContentTypes}

\* The health endpoint's answers (checkServiceHealth reads the status only)
HealthHeaderEvents ==
    {Ev("response", st, Header(<<"application/json">>), Undefined) : st \in Statuses}

RejectEvent == Ev("reject", 0, NullHeader, Undefined)

TimeoutEvent == Ev("timeout", 0, NullHeader, Undefined)

\* Bodies of analysis reports
Report(addr) ==
    JObj([token_info |-> JObj([name |-> JStr(<<"Token">>), address |-> JStr(addr)]),
          risk_analysis |-> JObj([score |-> JNum(85)]),
          security_checks |->
              JArr(<<JObj([status |-> JStr(<<"passed">>),
                           title |-> JStr(<<"Mint authority">>),
                           description |-> JStr(<<"Mint authority is disabled">>)])>>),
          contract_analysis |->
              JArr(<<JObj([risk_level |-> JStr(<<"high">>),
                           title |-> JStr(<<"Ownership">>),
                           details |-> JStr(<<"Top holder owns most of the supply">>)])>>)])

SuccessBodies(addr) ==
    {Report(addr), JArr(<<>>), JNull, JNum(7), JStr(<<"ok">>), JBool(TRUE)}

\* Bodies of error responses
ServerDetails ==
    { <<"rate limited">>,
      <<"Failed to fetch">>,
      <<"RPC node ", "currently unavailable">>,
      <<>> }

ErrorBodies ==
    {JObj([detail |-> JStr(d)]) : d \in ServerDetails}
    \cup { JObj([error |-> JStr(<<"rate limited">>)]), JNull }

\* response.json() and response.text() settle
JsonBodyEvents(bodies) ==
    {Ev("json", 0, NullHeader, b) : b \in bodies}
    \cup {Ev("syntax", 0, NullHeader, Undefined), Ev("bodyreject", 0, NullHeader, Undefined)}

TextBodyEvents == {Ev("text", 0, NullHeader, Undefined), Ev("bodyreject", 0, NullHeader, Undefined)}

\* The error a settled fetch or body read rejects with
RejectionsOf(ev) ==
    CASE ev.kind = "timeout" -> {AbortError}
      [] ev.kind = "syntax" -> {JsonSyntaxError}
      [] ev.kind \in {"reject", "bodyreject"} -> TransportErrors
      [] OTHER -> {}

-----------------------------------------------------------------------------
(* Side effects a handler performs, in order *)

Fx(op, a, b) == [op |-> op, a |-> a, b |-> b]

FetchFx(url, timeout) == Fx("fetch", url, timeout)

AbortFx == Fx("abort", <<>>, 0)

ReadJsonFx == Fx("json", <<>>, 0)

ReadTextFx == Fx("text", <<>>, 0)

SetItemFx(text) == Fx("setItem", <<"tokenData">>, text)

NavigateFx(via, url) == Fx("navigate", url, via)

HasFx(fx, op) == \E k \in 1..Len(fx) : fx[k].op = op

FxIndex(fx, op) == SetMin({k \in 1..Len(fx) : fx[k].op = op})

-----------------------------------------------------------------------------
(* URLs *)

\* Characters encodeURIComponent leaves alone, among those the model uses
Unreserved ==
    Base58 \cup {"0", "O", "I", "l", "-", "_", ".", "!", "~", "*", "'", "(", ")"}

PercentEscape(c) ==
    CASE c = " " -> <<"%", "2", "0">>
      [] c = "\t" -> <<"%", "0", "9">>
      [] c = "%" -> <<"%", "2", "5">>
      [] c = "&" -> <<"%", "2", "6">>
      [] c = "=" -> <<"%", "3", "D">>
      [] c = "?" -> <<"%", "3", "F">>
      [] OTHER -> <<"%", "3", "F">>

EncodeURIComponent(s) ==
    Flatten([i \in 1..Len(s) |-> IF s[i] \in Unreserved THEN <<s[i]>> ELSE PercentEscape(s[i])])

PercentUnescape(h, l) ==
    CASE <<h, l>> = <<"2", "0">> -> " "
      [] <<h, l>> = <<"0", "9">> -> "\t"
      [] <<h, l>> = <<"2", "5">> -> "%"
      [] <<h, l>> = <<"2", "6">> -> "&"
      [] <<h, l>> = <<"3", "D">> -> "="
      [] OTHER -> "?"

RECURSIVE DecodeURIComponent(_)
DecodeURIComponent(s) ==
    IF s = <<>> THEN <<>>
    ELSE IF s[1] = "%" /\ Len(s) >= 3
    THEN <<PercentUnescape(s[2], s[3])>> \o DecodeURIComponent(SubSeq(s, 4, Len(s)))
    ELSE <<s[1]>> \o DecodeURIComponent(Tail(s))

IndexUrl == <<"index.html">>

\* `results.html?address=${encodeURIComponent(tokenAddress)}`
ResultsUrl(tokenAddress) ==
    <<"results.html", "?", "address", "=">> \o EncodeURIComponent(tokenAddress)

\* window.location.search, without the "?"
Search(url) == IF Len(url) >= 2 /\ url[2] = "?" THEN SubSeq(url, 3, Len(url)) ELSE <<>>

\* new URLSearchParams(window.location.search).get(name)
UrlParamGet(url, name) ==
    LET q == Search(url)
    IN  IF Len(q) >= 2 /\ q[1] = name /\ q[2] = "="
        THEN Header(DecodeURIComponent(SubSeq(q, 3, Len(q))))
        ELSE NullHeader

-----------------------------------------------------------------------------
(* The tokenData item of sessionStorage *)

NoItem == [null |-> TRUE, text |-> JsonStringify(JNull)]

Item(text) == [null |-> FALSE, text |-> text]

\* JSON.parse(sessionStorage.getItem('tokenData')): a missing item reads as
\* null, which JSON.parse turns into the text "null"
ParseItem(item) == IF item.null THEN JNull ELSE JsonParse(item.text)

-----------------------------------------------------------------------------
(* Result screen (results.js) *)

NoView ==
    [body |-> "none", error |-> <<>>, loadingView |-> "none", resultsView |-> "none",
     tokenName |-> <<>>, tokenAddress |-> <<>>, riskClass |-> "", riskText |-> <<>>,
     securityResults |-> <<>>, contractResults |-> <<>>]

\* document.body.innerHTML = '<div class="error">...</div>'
ErrorBody(message) == [NoView EXCEPT !.body = "error", !.error = message]

NoAddressBody == ErrorBody(<<"No token address provided">>)

LoadFailedBody == ErrorBody(<<"Failed to load token analysis results">>)

\* element.textContent = x
TextContent(x) == IF x.t \in {"undefined", "null"} THEN <<>> ELSE ToStr(x)

Digits == {"0", "1", "2", "3", "4", "5", "6", "7", "8", "9"}

DigitValue(c) ==
    CASE c = "0" -> 0 [] c = "1" -> 1 [] c = "2" -> 2 [] c = "3" -> 3 [] c = "4" -> 4
      [] c = "5" -> 5 [] c = "6" -> 6 [] c = "7" -> 7 [] c = "8" -> 8 [] OTHER -> 9

NaN == [nan |-> TRUE, n |-> 0]

Number(n) == [nan |-> FALSE, n |-> n]

RECURSIVE LeadingDigits(_, _)
LeadingDigits(s, acc) ==
    IF s = <<>> \/ s[1] \notin Digits THEN acc
    ELSE LeadingDigits(Tail(s), 10 * acc + DigitValue(s[1]))

\* parseInt(x) on the values the model uses
ParseInt(x) ==
    CASE x.t = "num" -> Number(x.v)
      [] x.t = "str" -> IF x.v # <<>> /\ x.v[1] \in Digits THEN Number(LeadingDigits(x.v, 0))
                        ELSE NaN
      [] OTHER -> NaN

NumberText(x) == IF x.nan THEN "NaN" ELSE ToString(x.n)

HighRiskFrom == 70

MediumRiskFrom == 30

\* updateRiskScore: the class and the text of #riskScore
RiskClass(score) ==
    IF ~score.nan /\ score.n >= HighRiskFrom THEN "score-high"
    ELSE IF ~score.nan /\ score.n >= MediumRiskFrom THEN "score-medium"
    ELSE "score-low"

RiskLabel(score) ==
    IF ~score.nan /\ score.n >= HighRiskFrom THEN "High Risk"
    ELSE IF ~score.nan /\ score.n >= MediumRiskFrom THEN "Medium Risk"
    ELSE "Low Risk"

RiskText(score) == <<"Risk Score: ", NumberText(score), " - ", RiskLabel(score)>>

\* createRiskItem
CreateRiskItem(icon, title, description) ==
    [icon |-> icon, title |-> ToStr(title), description |-> ToStr(description)]

\* list.forEach(...) throws: list is no array, or an element is null/undefined
ForEachThrows(list) ==
    \/ list.t # "arr"
    \/ \E k \in 1..Len(list.v) : PropThrows(list.v[k])

SecurityItems(list) ==
    [k \in 1..Len(list.v) |->
        CreateRiskItem(IF Prop(list.v[k], "status") = JStr(<<"passed">>) THEN "pass" ELSE "warn",
                       Prop(list.v[k], "title"), Prop(list.v[k], "description"))]

ContractItems(list) ==
    [k \in 1..Len(list.v) |->
        CreateRiskItem(IF Prop(list.v[k], "risk_level") = JStr(<<"high">>) THEN "red"
                       ELSE IF Prop(list.v[k], "risk_level") = JStr(<<"medium">>) THEN "yellow"
                       ELSE "green",
                       Prop(list.v[k], "title"), Prop(list.v[k], "details"))]

\* displayResults(): the document it leaves behind
DisplayResults(item) ==
    LET data == ParseItem(item)
        tokenInfo == Prop(data, "token_info")
        risk == Prop(data, "risk_analysis")
        riskScore == Prop(risk, "score")
        checks == Prop(data, "security_checks")
        contract == Prop(data, "contract_analysis")
    IN  IF ~Truthy(data) THEN LoadFailedBody
        ELSE IF PropThrows(tokenInfo) THEN LoadFailedBody
        ELSE IF PropThrows(risk) THEN LoadFailedBody
        ELSE IF Truthy(checks) /\ ForEachThrows(checks) THEN LoadFailedBody
        ELSE IF Truthy(contract) /\ ForEachThrows(contract) THEN LoadFailedBody
        ELSE [body |-> "page", error |-> <<>>,
              loadingView |-> "none", resultsView |-> "block",
              tokenName |-> IF Truthy(Prop(tokenInfo, "name"))
                            THEN TextContent(Prop(tokenInfo, "name"))
                            ELSE <<"Unknown Token">>,
              tokenAddress |-> TextContent(Prop(tokenInfo, "address")),
              riskClass |-> RiskClass(IF Truthy(riskScore) THEN ParseInt(riskScore) ELSE Number(0)),
              riskText |-> RiskText(IF Truthy(riskScore) THEN ParseInt(riskScore) ELSE Number(0)),
              securityResults |-> IF Truthy(checks) THEN SecurityItems(checks) ELSE <<>>,
              contractResults |-> IF Truthy(contract) THEN ContractItems(contract) ELSE <<>>]

ResultsPageStorageCleared(url, item) == NoItem

\* What the script of the result screen leaves in sessionStorage: it reads the
\* item and writes nothing
ResultsPageStorage(url, item) == item

\* The script of the result screen, run on every load of the page
ResultsPageScript(url, item) ==
    IF LET a == UrlParamGet(url, "address") IN a.null \/ a.v = <<>>
    THEN NoAddressBody
    ELSE DisplayResults(item)

-----------------------------------------------------------------------------
(* State *)

\* A scanToken() run: where it is suspended, the address it was started with,
\* and the deadline of the abort timer that is armed (0: none)
Run(pc, tokenAddress, timer) == [pc |-> pc, tokenAddress |-> tokenAddress, timer |-> timer]

NoRun == Run("none", <<>>, 0)

InFlight == BagCardinality(scans)

NoNav == [pending |-> FALSE, via |-> "none", url |-> <<>>]

\* h: the handler; from, tokenAddress: where the run stood and its address;
\* ev: what settled; err: the error its catch block received; fx: its side
\* effects in order; exit: how the run ended, if it did
StepRec(h, sc, ev, err, fx, exit) ==
    [h |-> h, tokenAddress |-> sc.tokenAddress, from |-> sc.pc,
     ev |-> ev, err |-> err, fx |-> fx, exit |-> exit]

NoStep == StepRec("none", NoRun, NoEv, NoError, <<>>, "none")

Init ==
    /\ env \in Envs
    /\ page = "index"
    /\ location = IndexUrl
    /\ pendingNav = NoNav
    /\ inputValue = <<>>
    /\ inputInvalid = FALSE
    /\ button = HideLoading
    /\ errorDiv = HiddenError
    /\ scans = EmptyBag
    /\ sessionStorage = NoItem
    /\ view = NoView
    /\ step = NoStep

-----------------------------------------------------------------------------
(* Dispatch screen *)

\* The 'input' listener of #tokenAddress
TypeInput ==
    /\ page = "index"
    /\ ~pendingNav.pending
    /\ \E value \in Inputs :
        /\ value # inputValue
        /\ inputValue' = value
        /\ inputInvalid' = (Trim(value) # <<>> /\ ~IsValidSolanaAddress(Trim(value)))
    /\ errorDiv' = HideError(errorDiv)
    /\ step' = StepRec("input", NoRun, NoEv, NoError, <<>>, "none")
    /\ UNCHANGED <<env, page, location, pendingNav, button, scans, sessionStorage, view>>

\* scanToken() returns from its validation: showError(...); return
ValidationFails(h, tokenAddress, shown) ==
    /\ errorDiv' = ShowError(shown)
    /\ button' = HideLoading
    /\ step' = StepRec(h, Run("validating", tokenAddress, 0), NoEv, NoError, <<>>, "validation")
    /\ UNCHANGED <<env, page, location, pendingNav, inputValue, inputInvalid, scans,
                   sessionStorage, view>>

\* scanToken() passes validation: showLoading(), then the health probe is
\* issued and the run suspends at `await checkServiceHealth()`
StartsScan(h, tokenAddress) ==
    /\ InFlight < MaxScans
    /\ button' = ShowLoading
    /\ errorDiv' = HideError(errorDiv)
    /\ scans' = scans (+) SetToBag({Run("health", tokenAddress, TimeoutOf(HEALTH_TIMEOUT))})
    /\ step' = StepRec(h, Run("validating", tokenAddress, 0), NoEv, NoError,
                       <<FetchFx(HealthUrl(env), TimeoutOf(HEALTH_TIMEOUT))>>, "none")
    /\ UNCHANGED <<env, page, location, pendingNav, inputValue, inputInvalid,
                   sessionStorage, view>>

\* scanToken(), up to its first await
ScanToken(h) ==
    LET tokenAddress == Trim(inputValue)
    IN  IF tokenAddress = <<>>
        THEN ValidationFails(h, tokenAddress, EmptyInputShown)
        ELSE IF ~IsValidSolanaAddress(tokenAddress)
        THEN ValidationFails(h, tokenAddress, InvalidAddressShown)
        ELSE StartsScan(h, tokenAddress)

\* Activation of #scanButton, which a disabled button does not deliver
ClickScan ==
    /\ page = "index"
    /\ ~pendingNav.pending
    /\ ~button.disabled
    /\ ScanToken("scanToken")

Keys == {"Enter", "a"}

\* The 'keypress' listener of #tokenAddress
KeyPress ==
    /\ page = "index"
    /\ ~pendingNav.pending
    /\ \E key \in Keys :
        IF key = "Enter" THEN ScanToken("scanToken") ELSE UNCHANGED vars
\* The catch block, were it to remove the tokenData item as well
FailsRemovingItem(h, run, ev, error, fx) ==
    /\ errorDiv' = ShowError(CatchShown(env, error))
    /\ button' = HideLoading
    /\ scans' = scans (-) SetToBag({run})
    /\ sessionStorage' = NoItem
    /\ step' = StepRec(h, run, ev, error, fx, "error")
    /\ UNCHANGED <<env, page, location, pendingNav, inputValue, inputInvalid, view>>

\* catch (error) { ... showError(...) } finally { hideLoading() }
Fails(h, run, ev, error, fx) ==
    /\ errorDiv' = ShowError(CatchShown(env, error))
    /\ button' = HideLoading
    /\ scans' = scans (-) SetToBag({run})
    /\ step' = StepRec(h, run, ev, error, fx, "error")
    /\ UNCHANGED <<env, page, location, pendingNav, inputValue, inputInvalid,
                   sessionStorage, view>>

\* The run suspends at the next await
Awaits(h, run, ev, pc, timer, fx) ==
    /\ scans' = (scans (-) SetToBag({run})) (+) SetToBag({Run(pc, run.tokenAddress, timer)})
    /\ step' = StepRec(h, run, ev, NoError, fx, "none")
    /\ UNCHANGED <<env, page, location, pendingNav, inputValue, inputInvalid, button,
                   errorDiv, sessionStorage, view>>

\* fetchWithTimeout that issues the request again once it has aborted it
SettleFxRetries(ev) ==
    IF ev.kind = "timeout" THEN <<AbortFx, FetchFx(<<"retry">>, API_TIMEOUT)>> ELSE <<>>

\* fetchWithTimeout: what the settled fetch did to the timer and the controller
SettleFx(ev) == IF ev.kind = "timeout" THEN <<AbortFx>> ELSE <<>>

CheckServiceHealthAnyResponse(ev) == ev.kind = "response"

\* checkServiceHealth(): response.ok, or false when the fetch threw
CheckServiceHealth(ev) == IF ev.kind = "response" THEN Ok(ev.status) ELSE FALSE

\* The health probe settles; scanToken resumes after `await checkServiceHealth()`
HealthSettled ==
    /\ page = "index"
    /\ \E run \in BagToSet(scans) :
        /\ run.pc = "health"
        /\ \E ev \in HealthHeaderEvents \cup {RejectEvent, TimeoutEvent} :
            /\ ev.kind = "timeout" => run.timer > 0
            /\ IF ~CheckServiceHealth(ev)
               THEN Fails("health", run, ev, NewError(UnavailableMessage), SettleFx(ev))
               ELSE Awaits("health", run, ev, "analyze", TimeoutOf(0),
                           <<FetchFx(AnalyzeUrl(env, run.tokenAddress), TimeoutOf(0))>>)


\* The analysis fetch settles; scanToken resumes after `await fetchWithTimeout(...)`
\* and runs to its next await or to its end
AnalyzeSettled ==
    /\ page = "index"
    /\ \E run \in BagToSet(scans) :
        /\ run.pc = "analyze"
        /\ \E ev \in HeaderEvents \cup {RejectEvent, TimeoutEvent} :
            /\ ev.kind = "timeout" => run.timer > 0
            /\ IF ev.kind # "response"
                   THEN \E error \in RejectionsOf(ev) :
                            Fails("analyze", run, ev, error, SettleFx(ev))
                   ELSE IF ~Ok(ev.status)
                   THEN IF IsJsonContentType(ev.ct)
                        THEN Awaits("analyze", run, ev, "errJson", 0, <<ReadJsonFx>>)
                        ELSE IF env.variant = "script"
                        THEN Awaits("analyze", run, ev, "errText", 0, <<ReadTextFx>>)
                        ELSE Fails("analyze", run, ev, NewError(FailedToAnalyze), <<>>)
                   ELSE IF ~IsJsonContentType(ev.ct)
                   THEN IF env.variant = "script"
                        THEN Awaits("analyze", run, ev, "okText", 0, <<ReadTextFx>>)
                        ELSE Fails("analyze", run, ev, NewError(InvalidResponseMessage(env)), <<>>)
                   ELSE Awaits("analyze", run, ev, "okJson", 0, <<ReadJsonFx>>)

\* errorMessage = errorData.detail || errorMessage, as the thrown Error carries it
ErrorMessageOf(errorData) ==
    IF Truthy(Prop(errorData, "detail")) THEN ToStr(Prop(errorData, "detail"))
    ELSE FailedToAnalyze

\* if (!data || typeof data !== 'object') throw ...
DataRejected(data) == ~Truthy(data) \/ ~TypeofIsObject(data)

\* window.Telegram?.WebApp ? WebApp.navigate(url) : window.location.href = url
NavigateVia(e) == IF e.webapp THEN "webapp" ELSE "location"

StoreThenNavigateReversed(e, data, tokenAddress) ==
    <<NavigateFx(NavigateVia(e), ResultsUrl(tokenAddress)), SetItemFx(JsonStringify(data))>>

\* sessionStorage.setItem('tokenData', JSON.stringify(data)), then the navigation
StoreThenNavigate(e, data, tokenAddress) ==
    <<SetItemFx(JsonStringify(data)), NavigateFx(NavigateVia(e), ResultsUrl(tokenAddress))>>

\* The end of the try block, then finally { hideLoading() }
Succeeds(run, ev) ==
    LET fx == StoreThenNavigate(env, ev.body, run.tokenAddress)
        set == fx[FxIndex(fx, "setItem")]
        nav == fx[FxIndex(fx, "navigate")]
    IN  /\ sessionStorage' = Item(set.b)
        /\ pendingNav' = [pending |-> TRUE, via |-> nav.b, url |-> nav.a]
        /\ button' = HideLoading
        /\ scans' = scans (-) SetToBag({run})
        /\ step' = StepRec("body", run, ev, NoError, fx, "success")
        /\ UNCHANGED <<env, page, location, inputValue, inputInvalid, errorDiv, view>>

\* A body read (response.json() or response.text()) settles; scanToken resumes
\* and runs to its end
BodySettled ==
    /\ page = "index"
    /\ \E run \in BagToSet(scans) :
            \/ /\ run.pc = "errJson"
               /\ \E ev \in JsonBodyEvents(ErrorBodies) :
                    IF ev.kind # "json"
                    THEN \E error \in RejectionsOf(ev) : Fails("body", run, ev, error, <<>>)
                    ELSE IF PropThrows(ev.body)
                    THEN Fails("body", run, ev, NullDetailError, <<>>)
                    ELSE Fails("body", run, ev, NewError(ErrorMessageOf(ev.body)), <<>>)
            \/ /\ run.pc = "errText"
               /\ \E ev \in TextBodyEvents :
                    IF ev.kind # "text"
                    THEN \E error \in RejectionsOf(ev) : Fails("body", run, ev, error, <<>>)
                    ELSE Fails("body", run, ev,
                               NewError(FailedToAnalyze \o <<": ">> \o UnexpectedResponse), <<>>)
            \/ /\ run.pc = "okText"
               /\ \E ev \in TextBodyEvents :
                    IF ev.kind # "text"
                    THEN \E error \in RejectionsOf(ev) : Fails("body", run, ev, error, <<>>)
                    ELSE Fails("body", run, ev, NewError(InvalidResponseMessage(env)), <<>>)
            \/ /\ run.pc = "okJson"
               /\ \E ev \in JsonBodyEvents(SuccessBodies(run.tokenAddress)) :
                    IF ev.kind # "json"
                    THEN \E error \in RejectionsOf(ev) : Fails("body", run, ev, error, <<>>)
                    ELSE IF DataRejected(ev.body)
                    THEN Fails("body", run, ev, NewError(InvalidDataMessage), <<>>)
                    ELSE Succeeds(run, ev)

-----------------------------------------------------------------------------
(* Page loads *)

\* The tab loads a document: the old document and its suspended runs are gone,
\* and the new document's script runs.  The step records the page and the URL
\* that were replaced.
LoadPage(url) ==
    /\ location' = url
    /\ pendingNav' = NoNav
    /\ inputValue' = <<>>
    /\ inputInvalid' = FALSE
    /\ button' = HideLoading
    /\ errorDiv' = HiddenError
    /\ scans' = EmptyBag
    /\ IF url[1] = "results.html"
       THEN /\ page' = "results"
            /\ view' = ResultsPageScript(url, sessionStorage)
            /\ sessionStorage' = ResultsPageStorage(url, sessionStorage)
       ELSE /\ page' = "index"
            /\ view' = NoView
            /\ sessionStorage' = sessionStorage
    /\ step' = StepRec("load", Run(page, location, 0), NoEv, NoError, <<>>, "none")
    /\ UNCHANGED env

\* A triggered navigation takes effect
CommitNavigation ==
    /\ pendingNav.pending
    /\ LoadPage(pendingNav.url)

\* The user reloads the result screen
ReloadResults ==
    /\ page = "results"
    /\ LoadPage(location)

\* The user returns to the dispatch screen
OpenIndex ==
    /\ page = "results"
    /\ LoadPage(IndexUrl)

DeepLinks == {<<"results.html">>, ResultsUrl(AddrA), ResultsUrl(AddrB)}

\* The user opens the result screen by its URL
OpenResults ==
    /\ InFlight = 0
    /\ ~pendingNav.pending
    /\ \E url \in DeepLinks : LoadPage(url)

\* webapp.BackButton.onClick(() => webapp.navigate('index.html'))
BackButton ==
    /\ page = "results"
    /\ env.webapp
    /\ pendingNav' = [pending |-> TRUE, via |-> "webapp", url |-> IndexUrl]
    /\ step' = StepRec("back", NoRun, NoEv, NoError,
                       <<NavigateFx("webapp", IndexUrl)>>, "none")
    /\ UNCHANGED <<env, page, location, inputValue, inputInvalid, button, errorDiv,
                   scans, sessionStorage, view>>

-----------------------------------------------------------------------------

Next ==
    \/ TypeInput
    \/ ClickScan
    \/ KeyPress
    \/ HealthSettled
    \/ AnalyzeSettled
    \/ BodySettled
    \/ CommitNavigation
    \/ ReloadResults
    \/ OpenIndex
    \/ OpenResults
    \/ BackButton

Spec == Init /\ [][Next]_vars

-----------------------------------------------------------------------------
(* Properties of the dispatch screen *)

\* C1: at most one scan attempt is in flight at any time, whatever the
\* interleaving of button activations, Enter keypresses, responses and timers.
C1_AtMostOneScanInFlight == InFlight <= 1

\* C2: the scan button is disabled in every state in which a scan attempt is
\* between the start of its network phase and its exit, and it is enabled in
\* the state right after an attempt exits, on every exit path.
C2_ButtonDisabledWhileScanning ==
    /\ InFlight > 0 => button.disabled
    /\ step.exit \in {"success", "error"} /\ InFlight = 0 => ~button.disabled

\* The message on screen tells that the analysis service is unavailable.
ShowsServiceUnavailable ==
    /\ errorDiv.display = "block"
    /\ \/ errorDiv.title = <<"Service unavailable">>
       \/ Includes(errorDiv.details, <<"currently unavailable">>)

HealthProbeFailed ==
    /\ step.h = "health"
    /\ ~(step.ev.kind = "response" /\ step.ev.status >= 200 /\ step.ev.status <= 299)

\* C3: when the health probe, which carries a 5-second deadline, ends in a
\* non-success status, a transport failure or the expiry of its deadline, the
\* attempt ends there: no analysis request is issued and the
\* service-unavailable error is shown.
C3_HealthFailureShortCircuits ==
    /\ \A run \in BagToSet(scans) : run.pc = "health" => run.timer = 5000
    /\ HealthProbeFailed =>
        /\ step.exit = "error"
        /\ ~HasFx(step.fx, "fetch")
        /\ ShowsServiceUnavailable

C3_Witness ==
    /\ HealthProbeFailed
    /\ step.ev.kind = "timeout"
    /\ HasFx(step.fx, "abort")
    /\ ShowsServiceUnavailable

AnalysisDeadlineExpired == step.h = "analyze" /\ step.ev.kind = "timeout"

\* The attempt ended on a non-success HTTP response.
EndedOnHttpError ==
    /\ step.exit = "error"
    /\ \/ step.from \in {"errJson", "errText"}
       \/ step.h = "analyze" /\ step.ev.kind = "response" /\ step.ev.status > 299

\* C4: the analysis request carries a 30-second deadline; when it expires the
\* request is aborted and the attempt ends showing the request-timeout error,
\* whose title is not the connection-error title and is shown for no HTTP
\* error response.
C4_AnalysisDeadlineShowsTimeout ==
    /\ \A run \in BagToSet(scans) : run.pc = "analyze" => run.timer = 30000
    /\ AnalysisDeadlineExpired =>
        /\ HasFx(step.fx, "abort")
        /\ step.exit = "error"
        /\ errorDiv.display = "block"
        /\ errorDiv.title = <<"Request timeout">>
        /\ errorDiv.title # ConnectionErrorShown(env).title
    /\ EndedOnHttpError => errorDiv.title # <<"Request timeout">>

C4_Witness ==
    /\ AnalysisDeadlineExpired
    /\ errorDiv.display = "block"
    /\ errorDiv.title = <<"Request timeout">>

\* The address field holds nothing but white space.
BlankInput == \A i \in 1..Len(inputValue) : inputValue[i] \in {" ", "\t"}

\* C5: submitting an address field that is empty, or empty once trimmed,
\* issues no network request and shows the empty-input error.
C5_EmptyInputIssuesNoRequest ==
    step.h = "scanToken" /\ BlankInput =>
        /\ step.exit = "validation"
        /\ step.fx = <<>>
        /\ errorDiv.display = "block"
        /\ errorDiv.title = <<"Please enter a token address">>

C5_Witness ==
    /\ step.h = "scanToken"
    /\ inputValue = <<" ", "\t">>
    /\ errorDiv.title = <<"Please enter a token address">>

\* The submitted text, trimmed, is no 32..44-character Base58 string.
MalformedInput ==
    LET solid == {i \in 1..Len(inputValue) : inputValue[i] \notin {" ", "\t"}}
        n == IF solid = {} THEN 0 ELSE SetMax(solid) - SetMin(solid) + 1
    IN  /\ solid # {}
        /\ \/ n < 32
           \/ n > 44
           \/ \E i \in SetMin(solid)..SetMax(solid) :
                inputValue[i] \in {"0", "O", "I", "l", " ", "\t"}

\* C6: submitting a non-empty address that is malformed issues no network
\* request and shows the invalid-address error, whose message is not the
\* empty-input message.
C6_InvalidAddressIssuesNoRequest ==
    step.h = "scanToken" /\ MalformedInput =>
        /\ step.exit = "validation"
        /\ step.fx = <<>>
        /\ errorDiv.display = "block"
        /\ errorDiv.title = <<"Invalid Solana token address">>
        /\ errorDiv.title # EmptyInputShown.title

C6_Witness ==
    /\ step.h = "scanToken"
    /\ inputValue = AddrZero
    /\ errorDiv.title = <<"Invalid Solana token address">>

\* C7: a non-success JSON response whose body carries a non-empty detail
\* message ends with that message on screen verbatim, whatever its text; a body
\* without a detail field ends with the generic message.
C7_ServerDetailShownVerbatim ==
    step.h = "body" /\ step.from = "errJson" /\ step.ev.kind = "json"
                    /\ step.ev.body.t = "obj" =>
        LET detail == Prop(step.ev.body, "detail")
        IN  /\ errorDiv.display = "block"
            /\ detail.t = "str" /\ detail.v # <<>> =>
                Includes(errorDiv.title, detail.v) \/ Includes(errorDiv.details, detail.v)
            /\ detail.t = "undefined" =>
                Includes(errorDiv.details, <<"Failed to analyze token">>)

\* The last step handled a success status that came with a missing or non-JSON
\* content type: the headers arriving, or the read of the body as text settling.
NonJsonSuccessStep ==
    \/ step.h = "body" /\ step.from = "okText"
    \/ /\ step.h = "analyze" /\ step.ev.kind = "response"
       /\ step.ev.status >= 200 /\ step.ev.status <= 299
       /\ (step.ev.ct.null \/ ~Includes(step.ev.ct.v, <<"application/json">>))

\* C8: a success response with a missing or non-JSON content type ends the
\* attempt with the invalid-response error, and its body is not parsed as JSON.
C8_NonJsonSuccessShowsInvalidResponse ==
    NonJsonSuccessStep =>
        /\ ~HasFx(step.fx, "json")
        /\ step.exit # "none" =>
            /\ step.exit = "error"
            /\ errorDiv.display = "block"
            /\ Includes(errorDiv.details, <<"Invalid response from server">>)

\* C9: on a fully successful scan the parsed result is stored under tokenData
\* before the navigation is triggered, and the navigation goes to
\* results.html?address=<the run's address, URL-encoded>, the same URL through
\* the host embedding's navigate as through plain page navigation.
C9_StoreThenNavigate ==
    step.exit = "success" =>
        /\ Len(step.fx) = 2
        /\ step.fx[1].op = "setItem"
        /\ step.fx[1].a = <<"tokenData">>
        /\ step.fx[1].b = [json |-> step.ev.body]
        /\ step.fx[2].op = "navigate"
        /\ step.fx[2].a = <<"results.html", "?", "address", "=">> \o step.tokenAddress
        /\ step.fx[2].b = (IF env.webapp THEN "webapp" ELSE "location")
        /\ sessionStorage = [null |-> FALSE, text |-> [json |-> step.ev.body]]
        /\ pendingNav.pending
        /\ pendingNav.url = <<"results.html", "?", "address", "=">> \o step.tokenAddress

C9_Witness ==
    /\ step.exit = "success"
    /\ env.webapp
    /\ step.tokenAddress = AddrA
    /\ inputValue # <<" ">> \o AddrA \o <<" ">>
    /\ pendingNav.pending

\* C10: loading the result screen again, without a new scan, renders what it
\* rendered before, leaves the tokenData item as it was and issues no network
\* request.
C10_ReloadRendersTheSame ==
    [][page = "results" /\ page' = "results" /\ location' = location =>
            /\ view' = view
            /\ sessionStorage' = sessionStorage
            /\ ~HasFx(step'.fx, "fetch")]_vars

C10_Witness ==
    /\ page = "results"
    /\ step.h = "load"
    /\ step.from = "results"
    /\ step.tokenAddress = location
    /\ location = ResultsUrl(AddrA)
    /\ view.body = "page"
    /\ view.tokenAddress = AddrA
    /\ ~sessionStorage.null

-----------------------------------------------------------------------------
(* Properties of the result screen *)

\* The result screen was just loaded with an address in its query while the
\* tokenData item was missing.
LoadedWithoutStoredData ==
    /\ page = "results"
    /\ step.h = "load"
    /\ sessionStorage.null
    /\ Len(location) > 4
    /\ SubSeq(location, 1, 4) = <<"results.html", "?", "address", "=">>

\* C11: a load of the result screen that finds the tokenData item missing but
\* an address in the query falls back to a second way of acquiring the data
\* and renders a report, instead of showing an error.
C11_FallsBackWhenChannelEmpty ==
    LoadedWithoutStoredData => view.body = "page"

-----------------------------------------------------------------------------
(* The functions of the two screens, called on their own *)

\* A call of a function: its name, its arguments, what it returned
Call(f, args, result) == [h |-> f, args |-> args, result |-> result]

\* Strings handed to the validator: the lengths around both limits, made of
\* one character, or of "A" with one other character at either end
ProbeLengths == {0, 1, 31, 32, 33, 43, 44, 45}

ProbeChars == {"1", "9", "A", "z", "0", "O", "I", "l", "+", "\n"}

ProbeAddresses ==
    {Rep(c, n) : c \in ProbeChars, n \in ProbeLengths}
    \cup {[i \in 1..n |-> IF i = 1 THEN c ELSE "A"] :
            c \in ProbeChars, n \in ProbeLengths \ {0}}
    \cup {[i \in 1..n |-> IF i = n THEN c ELSE "A"] :
            c \in ProbeChars, n \in ProbeLengths \ {0}}

\* isValidSolanaAddress(address), as a truth value
CallIsValidSolanaAddress ==
    /\ \E address \in ProbeAddresses :
        step' = Call("isValidSolanaAddress", <<address>>, IsValidSolanaAddress(address))
    /\ UNCHANGED <<env, page, location, pendingNav, inputValue, inputInvalid, button,
                   errorDiv, scans, sessionStorage, view>>

-----------------------------------------------------------------------------
(* Properties of the address validator *)

\* The 58 characters of the alphabet: letters and digits other than 0, O, I, l
IsBase58Char(c) ==
    /\ c \in {"1", "2", "3", "4", "5", "6", "7", "8", "9", "0",
              "A", "B", "C", "D", "E", "F", "G", "H", "I", "J", "K", "L", "M",
              "N", "O", "P", "Q", "R", "S", "T", "U", "V", "W", "X", "Y", "Z",
              "a", "b", "c", "d", "e", "f", "g", "h", "i", "j", "k", "l", "m",
              "n", "o", "p", "q", "r", "s", "t", "u", "v", "w", "x", "y", "z"}
    /\ c \notin {"0", "O", "I", "l"}

\* C13: the validator accepts a string if and only if it is 32 to 44
\* characters long and every character is in the Base58 alphabet.
C13_ValidatorAcceptsExactlyBase58 ==
    step.h = "isValidSolanaAddress" =>
        LET address == step.args[1]
        IN  step.result <=>
                /\ Len(address) >= 32
                /\ Len(address) <= 44
                /\ \A i \in 1..Len(address) : IsBase58Char(address[i])

\* A 33-character string whose last character only is outside the alphabet
C13_Witness ==
    /\ step.h = "isValidSolanaAddress"
    /\ Len(step.args[1]) = 33
    /\ step.args[1][33] = "0"
    /\ \A i \in 1..32 : step.args[1][i] = "A"
    /\ ~step.result

-----------------------------------------------------------------------------
(* Scores *)

\* Number(x), as a comparison or Math.round applies it
ToNumber(x) ==
    CASE x.t = "num" -> Number(x.v)
      [] x.t = "null" -> Number(0)
      [] x.t = "str" ->
            IF x.v = <<>> THEN Number(0)
            ELSE IF \A i \in 1..Len(x.v) : x.v[i] \in Digits THEN Number(LeadingDigits(x.v, 0))
            ELSE NaN
      [] OTHER -> NaN

SuccessFrom == 80

WarningFrom == 50

\* updateSecurityScore: the colour of the score circle
ScoreColor(score) ==
    IF ~ToNumber(score).nan /\ ToNumber(score).n >= SuccessFrom THEN "var(--success-color)"
    ELSE IF ~ToNumber(score).nan /\ ToNumber(score).n >= WarningFrom THEN "var(--warning-color)"
    ELSE "var(--danger-color)"

\* updateSecurityScore(score): the text of #securityScore, the tenths of a
\* degree of the arc ((score / 100) * 360), and the colour
UpdateSecurityScore(score) ==
    [text |-> NumberText(ToNumber(score)),
     arc |-> IF ToNumber(score).nan THEN NaN ELSE Number(ToNumber(score).n * 36),
     color |-> ScoreColor(score)]

\* updateRiskScore(riskScore ? parseInt(riskScore) : 0): class and text of #riskScore
UpdateRiskScore(riskScore) ==
    LET score == IF Truthy(riskScore) THEN ParseInt(riskScore) ELSE Number(0)
    IN  [class |-> RiskClass(score), text |-> RiskText(score)]

\* Scores a payload may carry
Scores ==
    {JNum(n) : n \in {0, 10, 29, 30, 45, 69, 70, 79, 80, 85, 100}}
    \cup {Undefined, JNull, JStr(<<"8", "5">>), JStr(<<"h", "i", "g", "h">>)}

CallUpdateRiskScore ==
    /\ \E score \in Scores :
        step' = Call("updateRiskScore", <<score>>, UpdateRiskScore(score))
    /\ UNCHANGED <<env, page, location, pendingNav, inputValue, inputInvalid, button,
                   errorDiv, scans, sessionStorage, view>>

CallUpdateSecurityScore ==
    /\ \E score \in Scores :
        step' = Call("updateSecurityScore", <<score>>, UpdateSecurityScore(score))
    /\ UNCHANGED <<env, page, location, pendingNav, inputValue, inputInvalid, button,
                   errorDiv, scans, sessionStorage, view>>

-----------------------------------------------------------------------------
(* Properties of the score rendering *)

\* The band of a score: below 30 low, below 70 medium, else high; no score is 0
BandOf(score) ==
    LET n == IF score.t = "num" THEN score.v ELSE 0
    IN  IF n < 30 THEN "low" ELSE IF n < 70 THEN "medium" ELSE "high"

\* The category a rendering shows, by its colour class and by its label
ShownCategory(call) ==
    IF call.h = "updateRiskScore"
    THEN CASE call.result.class = "score-high" /\ call.result.text[4] = "High Risk" -> "high"
           [] call.result.class = "score-medium" /\ call.result.text[4] = "Medium Risk" -> "medium"
           [] call.result.class = "score-low" /\ call.result.text[4] = "Low Risk" -> "low"
           [] OTHER -> "mixed"
    ELSE CASE call.result.color = "var(--danger-color)" -> "high"
           [] call.result.color = "var(--warning-color)" -> "medium"
           [] OTHER -> "low"

\* C12: every score, or the absence of one, is rendered in the category of its
\* band: low risk below 30, medium risk from 30 and below 70, high risk from 70;
\* so 85 is high risk, 45 medium risk, 10 and no score low risk.
C12_ScoreRenderedInItsBand ==
    (step.h \in {"updateRiskScore", "updateSecurityScore"}
        /\ step.args[1].t \in {"num", "undefined"}) =>
            ShownCategory(step) = BandOf(step.args[1])

-----------------------------------------------------------------------------
(* Number formatting *)

\* A number that is no integer, given in thousandths: JDec(1234500) is 1234.5
JDec(m) == [t |-> "dec", m |-> m]

\* typeof x === 'number'
TypeofIsNumber(x) == x.t \in {"num", "dec"}

Thousandths(x) == IF x.t = "num" THEN 1000 * x.v ELSE x.m

Pow10(d) == CASE d = 0 -> 1 [] d = 1 -> 10 [] d = 2 -> 100 [] OTHER -> 1000

RECURSIVE DigitsOf(_)
\* The decimal digits of a natural number
DigitsOf(n) == IF n < 10 THEN <<ToString(n)>> ELSE DigitsOf(n \div 10) \o <<ToString(n % 10)>>

RECURSIVE Grouped(_)
\* Digits in groups of three, counted from the right
Grouped(ds) ==
    IF Len(ds) <= 3 THEN ds
    ELSE Grouped(SubSeq(ds, 1, Len(ds) - 3)) \o <<",">> \o SubSeq(ds, Len(ds) - 2, Len(ds))

\* Digits padded with zeros on the left to d places
Padded(ds, d) == Rep("0", d - Len(ds)) \o ds

\* The number rounded to d decimals, ties away from zero, as a count of 10^-d
RoundedMagnitude(x, d) ==
    LET a == IF Thousandths(x) < 0 THEN -Thousandths(x) ELSE Thousandths(x)
        unit == Pow10(3 - d)
    IN  (a + unit \div 2) \div unit

ToLocaleStringUngrouped(x, d) ==
    LET q == RoundedMagnitude(x, d)
    IN  (IF Thousandths(x) < 0 THEN <<"-">> ELSE <<>>)
        \o DigitsOf(q \div Pow10(d))
        \o (IF d = 0 THEN <<>> ELSE <<".">> \o Padded(DigitsOf(q % Pow10(d)), d))

\* num.toLocaleString('en-US', {minimumFractionDigits: d, maximumFractionDigits: d})
ToLocaleString(x, d) ==
    LET q == RoundedMagnitude(x, d)
    IN  (IF Thousandths(x) < 0 THEN <<"-">> ELSE <<>>)
        \o Grouped(DigitsOf(q \div Pow10(d)))
        \o (IF d = 0 THEN <<>> ELSE <<".">> \o Padded(DigitsOf(q % Pow10(d)), d))

DefaultDecimals == 2

FormatNumberUngrouped(num, decimals) ==
    IF ~TypeofIsNumber(num) THEN <<"0">> ELSE ToLocaleStringUngrouped(num, decimals)

\* formatNumber(num, decimals = 2)
FormatNumber(num, decimals) ==
    IF ~TypeofIsNumber(num) THEN <<"0">> ELSE ToLocaleString(num, decimals)

\* formatCurrency(amount)
FormatCurrency(amount) == <<"$">> \o FormatNumber(amount, DefaultDecimals)

\* Values handed to the formatter
FormatInputs ==
    {JNum(n) : n \in {0, 7, 999, 1000, 12345, 1000000, 1234567}}
    \cup {JDec(m) : m \in {5, 995, 1234500, 999995, 2675, -1234567}}
    \cup {JStr(<<"x">>), JStr(<<"1", "2">>), JNull, Undefined, JArr(<<>>),
          JObj([amount |-> JNum(1)])}

\* The decimals the renderer asks for: none given (two), or zero
CallFormatNumber ==
    /\ \E num \in FormatInputs, decimals \in {DefaultDecimals, 0} :
        step' = Call("formatNumber", <<num, JNum(decimals)>>, FormatNumber(num, decimals))
    /\ UNCHANGED <<env, page, location, pendingNav, inputValue, inputInvalid, button,
                   errorDiv, scans, sessionStorage, view>>

CallFormatCurrency ==
    /\ \E amount \in FormatInputs :
        step' = Call("formatCurrency", <<amount>>, FormatCurrency(amount))
    /\ UNCHANGED <<env, page, location, pendingNav, inputValue, inputInvalid, button,
                   errorDiv, scans, sessionStorage, view>>

FunctionsNext ==
    \/ CallIsValidSolanaAddress
    \/ CallUpdateRiskScore
    \/ CallUpdateSecurityScore
    \/ CallFormatNumber
    \/ CallFormatCurrency

FunctionsSpec == Init /\ [][FunctionsNext]_vars

-----------------------------------------------------------------------------
(* Properties of the number formatter *)

\* The text is a number with d decimals and a comma before every third digit
\* of its whole part
IsGroupedDecimal(text, d) ==
    LET body == IF text # <<>> /\ text[1] = "-" THEN Tail(text) ELSE text
        w == IF d = 0 THEN Len(body) ELSE Len(body) - d - 1
    IN  /\ w >= 1
        /\ d > 0 => body[w + 1] = "." /\ \A i \in (w + 2)..Len(body) : body[i] \in Digits
        /\ Len(body) = (IF d = 0 THEN w ELSE w + 1 + d)
        /\ \A i \in 1..w : IF (w - i + 1) % 4 = 0 THEN body[i] = "," ELSE body[i] \in Digits
        /\ w > 1 => body[1] # "0"

\* The digits of the text, read as one natural number
DigitsValue(text) == LeadingDigits(SelectSeq(text, LAMBDA c : c \in Digits), 0)

\* q is the number of thousandths m, rounded to a count of 10^-d
IsRounding(q, m, d) ==
    LET a == IF m < 0 THEN -m ELSE m
        unit == IF d = 0 THEN 1000 ELSE 10
    IN  /\ q * unit - unit \div 2 <= a
        /\ a < q * unit + unit \div 2

FormatsNumber(text, num, d) ==
    IF num.t \notin {"num", "dec"} THEN text = <<"0">>
    ELSE /\ IsGroupedDecimal(text, d)
         /\ IsRounding(DigitsValue(text), IF num.t = "num" THEN 1000 * num.v ELSE num.m, d)
         /\ (text[1] = "-") = (num.t = "dec" /\ num.m < 0)

\* C15: the formatter renders a number with thousands separators and exactly
\* the decimals asked for, two for money, and returns "0" for whatever is no
\* number: formatCurrency(1234.5) = "$1,234.50", formatNumber(1000000, 0) =
\* "1,000,000", formatNumber("x") = "0".
C15_FormatterGroupsAndDefaults ==
    /\ step.h = "formatNumber" =>
        /\ FormatsNumber(step.result, step.args[1], step.args[2].v)
        /\ step.args = <<[t |-> "num", v |-> 1000000], [t |-> "num", v |-> 0]>> =>
            step.result = <<"1", ",", "0", "0", "0", ",", "0", "0", "0">>
        /\ step.args[1] = [t |-> "str", v |-> <<"x">>] => step.result = <<"0">>
    /\ step.h = "formatCurrency" =>
        /\ step.result[1] = "$"
        /\ FormatsNumber(Tail(step.result), step.args[1], 2)
        /\ step.args[1] = [t |-> "dec", m |-> 1234500] =>
            step.result = <<"$", "1", ",", "2", "3", "4", ".", "5", "0">>

C15_Witness ==
    /\ step.h = "formatCurrency"
    /\ step.args[1] = [t |-> "dec", m |-> 1234500]
    /\ step.result = <<"$", "1", ",", "2", "3", "4", ".", "5", "0">>

-----------------------------------------------------------------------------
(* The result screen that takes its data from the query (src/unnamed/part_001) *)

\* The value of the `data` parameter as text: JSON text, or text that is no JSON
NotJson == [raw |-> <<"{oops">>]

\* JSON.parse(text) throws a SyntaxError
JsonParseThrows(text) == "json" \notin DOMAIN text

\* The URL of the screen with the text of a payload in its query
PayloadUrl(text) == <<"results.html", "?", "data", "=", text>>

\* urlParams.get('data'), decoded: the text, or null when the query has none
PayloadParam(url) ==
    IF Len(url) = 5 /\ url[2] = "?" /\ url[3] = "data" /\ url[4] = "="
    THEN [null |-> FALSE, text |-> url[5]]
    ELSE [null |-> TRUE, text |-> NotJson]

\* The document before its script has run; the script's last step is to hide
\* #loadingView and to show #resultsView
PayloadPageDocument ==
    [loadingView |-> "block", loadingError |-> <<>>, resultsView |-> "none",
     tokenName |-> <<>>, tokenAddress |-> <<>>,
     securityScore |-> [text |-> "", arc |-> NaN, color |-> ""],
     riskFactors |-> <<>>, totalLiquidity |-> <<>>, lpProviders |-> <<>>,
     totalSupply |-> <<>>, links |-> <<>>, upvotes |-> <<>>, downvotes |-> <<>>]

\* The message of the TypeError that reading x.k throws
ReadError(k) == <<"Cannot read properties of undefined (reading '", k, "')">>

\* handleError(error): the message goes into #loadingView
HandleError(doc, message) ==
    [doc EXCEPT !.loadingError =
        IF message # <<>> THEN message ELSE <<"Failed to analyze token. Please try again.">>]

\* createRiskFactor(risk)
CreateRiskFactor(risk) ==
    [title |-> ToStr(Prop(risk, "title")), description |-> ToStr(Prop(risk, "description"))]

\* data.security.risks && data.security.risks.length > 0
HasRisks(risks) ==
    /\ Truthy(risks)
    /\ risks.t \in {"arr", "str"}
    /\ Len(risks.v) > 0

\* The number of risk factors appended before risks.forEach(...) throws, or -1
RisksThrowAfter(risks) ==
    IF ~HasRisks(risks) THEN -1
    ELSE IF risks.t # "arr" THEN 0
    ELSE IF \E k \in 1..Len(risks.v) : PropThrows(risks.v[k])
    THEN SetMin({k \in 1..Len(risks.v) : PropThrows(risks.v[k])}) - 1
    ELSE -1

\* The icon table of createLinkButton
LinkIcon(type) ==
    IF type \in {"x", "telegram", "website", "github", "discord"} THEN type ELSE "link"

\* createLinkButton for every entry of data.verification.links
LinkButtons(links) ==
    IF links.t # "obj" THEN <<>>
    ELSE [type \in DOMAIN links.v |-> [icon |-> LinkIcon(type), href |-> ToStr(links.v[type])]]

\* The statement of updateUI that throws, in the order of the code; 0: none
UpdateUIThrowsAt(data) ==
    LET tokenInfo == Prop(data, "token_info")
        security == Prop(data, "security")
    IN  IF PropThrows(data) \/ PropThrows(tokenInfo) THEN 1
        ELSE IF PropThrows(security) THEN 2
        ELSE IF RisksThrowAfter(Prop(security, "risks")) >= 0 THEN 3
        ELSE IF PropThrows(Prop(data, "market_data")) THEN 4
        ELSE IF PropThrows(Prop(data, "verification")) THEN 5
        ELSE IF PropThrows(Prop(data, "community")) THEN 6
        ELSE 0

\* The message of what updateUI throws
UpdateUIError(data) ==
    CASE UpdateUIThrowsAt(data) = 1 ->
            IF PropThrows(data) THEN ReadError("token_info") ELSE ReadError("name")
      [] UpdateUIThrowsAt(data) = 2 -> ReadError("security_score")
      [] UpdateUIThrowsAt(data) = 3 ->
            IF Prop(Prop(data, "security"), "risks").t # "arr"
            THEN <<"data.security.risks.forEach is not a function">>
            ELSE ReadError("title")
      [] UpdateUIThrowsAt(data) = 4 -> ReadError("total_liquidity")
      [] UpdateUIThrowsAt(data) = 5 -> ReadError("links")
      [] OTHER -> ReadError("upvotes")

\* updateUI(data), up to the statement that throws: what it has written
UpdateUIFields(doc, data) ==
    LET t == UpdateUIThrowsAt(data)
        done(k) == t = 0 \/ t > k
        tokenInfo == Prop(data, "token_info")
        security == Prop(data, "security")
        risks == Prop(security, "risks")
        market == Prop(data, "market_data")
        community == Prop(data, "community")
    IN  [doc EXCEPT
            !.tokenName = IF done(1)
                          THEN ToStr(Prop(tokenInfo, "name")) \o <<" (">>
                                 \o ToStr(Prop(tokenInfo, "symbol")) \o <<")">>
                          ELSE @,
            !.tokenAddress = IF done(1) THEN TextContent(Prop(tokenInfo, "mint")) ELSE @,
            !.securityScore = IF done(2)
                              THEN UpdateSecurityScore(Prop(security, "security_score"))
                              ELSE @,
            !.riskFactors = IF t = 3 /\ risks.t = "arr"
                            THEN [k \in 1..RisksThrowAfter(risks) |-> CreateRiskFactor(risks.v[k])]
                            ELSE IF done(3) /\ HasRisks(risks)
                            THEN [k \in 1..Len(risks.v) |-> CreateRiskFactor(risks.v[k])]
                            ELSE <<>>,
            !.totalLiquidity = IF done(4) THEN FormatCurrency(Prop(market, "total_liquidity"))
                               ELSE @,
            !.lpProviders = IF done(4) THEN TextContent(Prop(market, "lp_providers")) ELSE @,
            !.totalSupply = IF done(4) THEN FormatNumber(Prop(tokenInfo, "supply"), 0) ELSE @,
            !.links = IF done(5) /\ Truthy(Prop(Prop(data, "verification"), "links"))
                      THEN LinkButtons(Prop(Prop(data, "verification"), "links"))
                      ELSE <<>>,
            !.upvotes = IF done(6) THEN TextContent(Prop(community, "upvotes")) ELSE @,
            !.downvotes = IF done(6) THEN TextContent(Prop(community, "downvotes")) ELSE @]

UpdateUIShowsFirst(doc, data) ==
    [UpdateUIFields(doc, data) EXCEPT !.loadingView = "none", !.resultsView = "block"]

\* updateUI(data): its last two statements show the results and hide the loading view
UpdateUI(doc, data) ==
    IF UpdateUIThrowsAt(data) = 0
    THEN [UpdateUIFields(doc, data) EXCEPT !.loadingView = "none", !.resultsView = "block"]
    ELSE UpdateUIFields(doc, data)

\* init(): the document it leaves behind
PayloadPageScript(url) ==
    LET param == PayloadParam(url)
    IN  IF param.null
        THEN HandleError(PayloadPageDocument, <<"No token data provided">>)
        ELSE IF JsonParseThrows(param.text)
        THEN HandleError(PayloadPageDocument, <<"Unexpected token 'o', \"{oops\" is not valid JSON">>)
        ELSE IF UpdateUIThrowsAt(JsonParse(param.text)) # 0
        THEN HandleError(UpdateUI(PayloadPageDocument, JsonParse(param.text)),
                         UpdateUIError(JsonParse(param.text)))
        ELSE UpdateUI(PayloadPageDocument, JsonParse(param.text))

\* The object without some of its fields
Without(obj, keys) == JObj([k \in DOMAIN obj.v \ keys |-> obj.v[k]])

\* A complete payload of this screen
FullPayload ==
    JObj([token_info |-> JObj([name |-> JStr(<<"Token">>), symbol |-> JStr(<<"TKN">>),
                                mint |-> JStr(AddrA), supply |-> JNum(1000000)]),
          security |-> JObj([security_score |-> JNum(85),
                              risks |-> JArr(<<JObj([title |-> JStr(<<"Mutable metadata">>),
                                                     description |-> JStr(<<"The owner can change it">>)])>>)]),
          market_data |-> JObj([total_liquidity |-> JDec(1234500), lp_providers |-> JNum(12)]),
          verification |-> JObj([links |-> JObj([x |-> JStr(<<"https://x.com/token">>)])]),
          community |-> JObj([upvotes |-> JNum(3), downvotes |-> JNum(1)])])

PayloadSections == {"token_info", "security", "market_data", "verification", "community"}

\* Payloads with no section, one section, every section or some fields left out
PartialPayloads ==
    {Without(FullPayload, keys) : keys \in {{}, PayloadSections} \cup {{k} : k \in PayloadSections}}
    \cup {JObj([FullPayload.v EXCEPT !.token_info = Without(@, {"name", "symbol", "supply"})]),
          JObj([FullPayload.v EXCEPT !.security = Without(@, {"security_score", "risks"})]),
          JObj([FullPayload.v EXCEPT !.security = Without(@, {"risks"})]),
          JObj([FullPayload.v EXCEPT !.verification = Without(@, {"links"})])}

PayloadLinks ==
    {<<"results.html">>, PayloadUrl(NotJson), PayloadUrl(JsonStringify(JNull))}
    \cup {PayloadUrl(JsonStringify(data)) : data \in PartialPayloads}

\* The tab loads this screen
LoadPayloadPage(url) ==
    /\ page' = "part001"
    /\ location' = url
    /\ pendingNav' = NoNav
    /\ inputValue' = <<>>
    /\ inputInvalid' = FALSE
    /\ button' = HideLoading
    /\ errorDiv' = HiddenError
    /\ scans' = EmptyBag
    /\ view' = PayloadPageScript(url)
    /\ step' = StepRec("load", Run(page, location, 0), NoEv, NoError, <<>>, "none")
    /\ UNCHANGED <<env, sessionStorage>>

\* The user opens this screen by its URL
OpenPayloadPage ==
    /\ InFlight = 0
    /\ ~pendingNav.pending
    /\ \E url \in PayloadLinks : LoadPayloadPage(url)

\* The user reloads this screen
ReloadPayloadPage ==
    /\ page = "part001"
    /\ LoadPayloadPage(location)

-----------------------------------------------------------------------------
(* The result screens on their own, over what a scan may have stored *)

ReportSections == {"token_info", "risk_analysis", "security_checks", "contract_analysis"}

\* Reports with no section, one section, every section or a field left out
PartialReports ==
    {Without(Report(AddrA), keys) : keys \in {{}, ReportSections} \cup {{k} : k \in ReportSections}}
    \cup {JObj([Report(AddrA).v EXCEPT !.token_info = Without(@, {"name"})]),
          JObj([Report(AddrA).v EXCEPT !.risk_analysis = Without(@, {"score"})])}

\* The tab's sessionStorage after earlier scans: every JSON object the analysis
\* endpoint answers with is stored as it came
RenderInit ==
    /\ env \in {e \in Envs : e.variant = "script"}
    /\ page = "index"
    /\ location = IndexUrl
    /\ pendingNav = NoNav
    /\ inputValue = <<>>
    /\ inputInvalid = FALSE
    /\ button = HideLoading
    /\ errorDiv = HiddenError
    /\ scans = EmptyBag
    /\ sessionStorage \in {NoItem} \cup {Item(JsonStringify(data)) : data \in PartialReports}
    /\ view = NoView
    /\ step = NoStep

RenderNext ==
    \/ OpenResults
    \/ ReloadResults
    \/ OpenPayloadPage
    \/ ReloadPayloadPage

RenderSpec == RenderInit /\ [][RenderNext]_vars

-----------------------------------------------------------------------------
(* Properties of the result screens *)

\* The result screen of results.js was loaded with an address and found a
\* stored report, complete or not
LoadedStoredReport ==
    /\ page = "results"
    /\ step.h = "load"
    /\ Len(location) > 4
    /\ ~sessionStorage.null
    /\ sessionStorage.text.json.t = "obj"

\* The result screen of part_001 was loaded with a payload, complete or not
LoadedPayload ==
    /\ page = "part001"
    /\ step.h = "load"
    /\ Len(location) = 5
    /\ "json" \in DOMAIN location[5]
    /\ location[5].json.t = "obj"

\* C14: the renderer completes on every payload with optional sections or
\* fields absent, and shows the results view instead of an error.
C14_PartialPayloadRenders ==
    /\ LoadedStoredReport => view.body = "page" /\ view.resultsView = "block"
    /\ LoadedPayload => view.loadingError = <<>> /\ view.resultsView = "block"

\* The document of results.js holds the error message and nothing else
OnlyErrorInBody ==
    /\ view.body = "error"
    /\ view.error # <<>>
    /\ view.resultsView = "none"
    /\ view.tokenName = <<>> /\ view.tokenAddress = <<>> /\ view.riskText = <<>>
    /\ view.securityResults = <<>> /\ view.contractResults = <<>>

\* The document of part_001 has no region of the results view written
NothingRendered ==
    /\ view.tokenName = <<>> /\ view.tokenAddress = <<>>
    /\ view.securityScore.text = ""
    /\ view.riskFactors = <<>> /\ view.links = <<>>
    /\ view.totalLiquidity = <<>> /\ view.lpProviders = <<>> /\ view.totalSupply = <<>>
    /\ view.upvotes = <<>> /\ view.downvotes = <<>>

-----------------------------------------------------------------------------
(* Properties of the requests of a scan *)

\* The requests the last handler issued
FetchesOfStep == {k \in 1..Len(step.fx) : step.fx[k].op = "fetch"}

\* The number of suspended runs that wait at one of the places
RunsAt(pcs) ==
    BagCardinality([run \in {r \in BagToSet(scans) : r.pc \in pcs} |-> CopiesIn(run, scans)])

\* The last handler issued the health probe: it is scanToken passing validation
IssuedHealthProbe ==
    /\ step.h = "scanToken"
    /\ step.exit = "none"
    /\ step.fx[1].a[Len(step.fx[1].a)] = "/health"

\* The last handler issued the analysis request: it is the continuation of a
\* health probe that was answered with a success status
IssuedAnalysisRequest ==
    /\ step.h = "health"
    /\ step.ev.kind = "response"
    /\ step.ev.status >= 200 /\ step.ev.status <= 299
    /\ Includes(step.fx[1].a, <<"/api/analyze/">> \o step.tokenAddress)

RequestsOfStepInOrder ==
    /\ Cardinality(FetchesOfStep) <= 1
    /\ FetchesOfStep # {} => Len(step.fx) = 1 /\ (IssuedHealthProbe \/ IssuedAnalysisRequest)
    /\ step.exit \in {"error", "validation", "success"} => FetchesOfStep = {}

\* C16: a scan attempt issues its health probe once, when it starts, and its
\* analysis request once, when the probe has been answered with success; no
\* handler issues two requests and none issues a request after an error.
C16_RequestsSequentialNeverRepeated ==
    /\ []RequestsOfStepInOrder
    /\ [][/\ RunsAt({"health"})' > RunsAt({"health"}) =>
                /\ step'.h = "scanToken"
                /\ InFlight' = InFlight + 1
                /\ RunsAt({"health"})' = RunsAt({"health"}) + 1
          /\ RunsAt({"analyze"})' > RunsAt({"analyze"}) =>
                /\ step'.h = "health"
                /\ InFlight' = InFlight
                /\ RunsAt({"health"})' = RunsAt({"health"}) - 1
                /\ RunsAt({"analyze"})' = RunsAt({"analyze"}) + 1]_vars

\* The analysis request goes out when the probe of the same run has succeeded
C16_Witness ==
    /\ step.h = "health"
    /\ step.exit = "none"
    /\ Len(step.fx) = 1
    /\ step.fx[1].op = "fetch"
    /\ RunsAt({"analyze"}) = 1
    /\ RunsAt({"health"}) = 1

-----------------------------------------------------------------------------
(* Progress of a scan *)

\* Both fetches run under a timer of fetchWithTimeout, so each of them settles:
\* with headers, with a transport failure, or with the abort.  The reads of a
\* body run after clearTimeout and settle only if the backend ends the body.
LiveSpec == Init /\ [][Next]_vars /\ WF_vars(HealthSettled) /\ WF_vars(AnalyzeSettled)

\* C17: every scan attempt that passes validation eventually exits, whatever
\* the backend does: unless new scans keep being started, the screen is again
\* and again without a scan in flight.
C17_EveryScanExits ==
    \/ []<>(InFlight = 0)
    \/ []<>(step.h = "scanToken" /\ step.exit = "none")

-----------------------------------------------------------------------------
(* Properties of the error messages *)

\* The analysis request failed in transport: fetch() rejected, with no abort
AnalysisTransportFailure == step.h = "analyze" /\ step.ev.kind = "reject"

\* C18: every transport failure of the analysis request, whatever message the
\* runtime gives it, ends the attempt with the connection error, and no HTTP
\* error response or server message is shown as the connection error or as
\* the service-unavailable error.
C18_TransportFailuresAreConnectionErrors ==
    /\ AnalysisTransportFailure =>
        /\ step.exit = "error"
        /\ errorDiv.display = "block"
        /\ errorDiv.title = <<"Connection error">>
    /\ EndedOnHttpError =>
        errorDiv.title \notin {<<"Connection error">>, <<"Service unavailable">>}

\* The message on screen is one that the catch block of a run has shown
ShowsErrorOfFailedRun ==
    /\ errorDiv.display = "block"
    /\ errorDiv.title \in {<<"Request timeout">>, <<"Connection error">>,
                           <<"Service unavailable">>, <<"Analysis failed">>}

\* C19: every failed attempt ends with one error message visible and the
\* button enabled; a scan that starts hides the error, and no attempt ends in
\* success while the error of another attempt's failure is visible.
C19_OneErrorAndNeverBesideLaterResult ==
    /\ step.exit = "error" =>
        /\ errorDiv.display = "block"
        /\ errorDiv.title # <<>>
        /\ ~button.disabled
    /\ step.h = "scanToken" /\ step.exit = "none" =>
        /\ errorDiv.display = "none"
        /\ InFlight >= 1
    /\ step.exit = "success" => ~ShowsErrorOfFailedRun

-----------------------------------------------------------------------------
(* C21: parsed bodies that are no structured record *)

\* The analysis answered with success status and JSON content type, and its
\* body parsed to a value that is no record
ParsedBodyIsNoRecord ==
    /\ step.h = "body"
    /\ step.from = "okJson"
    /\ step.ev.kind = "json"
    /\ step.ev.body.t # "obj"

\* C21: a success response with JSON content type whose parsed body is null, a
\* number, a string, a boolean or a list ends the attempt with the
\* invalid-data error; tokenData is not written and no navigation is triggered.
C21_NonRecordBodyIsRejected ==
    ParsedBodyIsNoRecord =>
        /\ step.exit = "error"
        /\ errorDiv.display = "block"
        /\ Includes(errorDiv.details, InvalidDataMessage)
        /\ ~HasFx(step.fx, "setItem")
        /\ ~HasFx(step.fx, "navigate")

-----------------------------------------------------------------------------
(* C22: who writes the tokenData item *)

\* The step is the end of a scan that passed validation, went through the
\* health probe and the analysis to the JSON body of a success response, and
\* stored that body
FullySuccessful(s) ==
    /\ s.exit = "success"
    /\ s.h = "body"
    /\ s.from = "okJson"
    /\ s.ev.kind = "json"
    /\ IsValidSolanaAddress(s.tokenAddress)
    /\ HasFx(s.fx, "setItem")

\* A step of the dispatch screen's scan
IsScanStep(s) == s.h \in {"scanToken", "health", "analyze", "body"}

\* C22: the dispatch screen writes the tokenData item only at the end of a
\* fully successful scan; a step that ends a scan attempt in an error, or that
\* rejects its input, leaves the item exactly as it was, so the result of an
\* earlier successful scan stays stored after a later failed scan.
C22_ChannelWrittenOnlyOnSuccess ==
    [][/\ (IsScanStep(step') /\ sessionStorage' # sessionStorage) => FullySuccessful(step')
       /\ step'.exit \in {"error", "validation"} => sessionStorage' = sessionStorage]_vars

\* A scan fails on a dispatch screen that was loaded with an earlier result
\* in the item
C22_Witness ==
    /\ step.exit = "error"
    /\ step.h \in {"health", "analyze", "body"}
    /\ ~sessionStorage.null
    /\ ~pendingNav.pending

-----------------------------------------------------------------------------
(* C23: the report on the result screen and the address in its URL *)

\* The result screen shows a report
RendersReport ==
    /\ page = "results"
    /\ view.body = "page"

\* C23: whenever the result screen renders a report, it is the report that was
\* fetched for the address in the screen's query parameter: the address the
\* rendered report carries is the address parameter of the URL.
C23_RenderedReportBelongsToAddress ==
    RendersReport =>
        LET a == UrlParamGet(location, "address")
        IN  /\ ~a.null
            /\ view.tokenAddress = a.v

====
